---- MODULE Spec2Model ----
(***************************************************************************)
(* voronoi_tessellate_mesh (src/mesh_voronoi.py): validation, shell split, *)
(* rejection sampling of the seeds, the closure box, and for every seed    *)
(* the half-space system, the bounded cell and its per-shell clipping.     *)
(*                                                                         *)
(* Numbers.  Coordinates are integers (lattice units).  The code's eps is  *)
(* 1e4 * machine-epsilon * scale, about 2e-12 * scale: far below one       *)
(* lattice unit.  A scalar is therefore a pair [r, e] standing for         *)
(* r + e * (1e4 * mach), ordered lexicographically, so that the sign and   *)
(* the size of the shift stay visible without 2^52 in the arithmetic.      *)
(* A probed point is [r, e] of two 3-vectors in the same way.              *)
(*                                                                         *)
(* Library calls (scipy HalfspaceIntersection, trimesh convex_hull,        *)
(* intersection, volume, numpy.random.rand) are the environment: what they *)
(* return or raise is chosen with \E in the action that makes the call.    *)
(***************************************************************************)
EXTENDS Integers, Sequences, FiniteSets, TLC

\* Largest number_of_cells the runs are started with.
MaxCells == 3

\* np.random.rand(number_of_cells * 5, 3)
CandidatesPerCell == 5

\* Length of the list of lattice points the candidates are drawn from: a
\* window of one round can lie wholly outside or wholly inside the mesh.
PoolSize == 2 * CandidatesPerCell * MaxCells

(***************************************************************************)
(* Vectors and scalars                                                     *)
(***************************************************************************)
Abs(n) == IF n < 0 THEN 0 - n ELSE n

Dot(u, v) == u[1] * v[1] + u[2] * v[2] + u[3] * v[3]

VSub(u, v) == <<u[1] - v[1], u[2] - v[2], u[3] - v[3]>>

VScale(k, u) == <<k * u[1], k * u[2], k * u[3]>>

Max3(u) ==
    LET m == IF u[1] >= u[2] THEN u[1] ELSE u[2]
    IN  IF m >= u[3] THEN m ELSE u[3]

\* np.linalg.norm, rounded down to the lattice unit.
Norm(a) ==
    CHOOSE r \in 0..(Abs(a[1]) + Abs(a[2]) + Abs(a[3])) :
        r * r <= Dot(a, a) /\ Dot(a, a) < (r + 1) * (r + 1)

Real(x) == [r |-> x, e |-> 0]

Point(v) == [r |-> v, e |-> <<0, 0, 0>>]

\* value <= 0 and value < 0 for value = r + e * (1e4 * mach)
LeqZero(n) == n.r < 0 \/ (n.r = 0 /\ n.e <= 0)

LtZero(n) == n.r < 0 \/ (n.r = 0 /\ n.e < 0)

\* a_x x + a_y y + a_z z + d of a row [a_x, a_y, a_z, d] at the point x
Lhs(row, x) ==
    [r |-> Dot(row, x.r) + row[4].r, e |-> Dot(row, x.e) + row[4].e]

\* Half-spaces are in the form a.x + d <= 0
Satisfies(row, x) == LeqZero(Lhs(row, x))

(***************************************************************************)
(* Input meshes.  A mesh is what the code reads of it: bounds, centroid    *)
(* (trimesh: area-weighted mean of the triangle centroids), is_watertight, *)
(* the connected components split() returns, and contains().  The solid a  *)
(* watertight component encloses is a union of axis-aligned boxes.         *)
(***************************************************************************)
Box(lo, hi) == [lo |-> lo, hi |-> hi]

StrictlyIn(p, b) == \A k \in 1..3 : b.lo[k] < p[k] /\ p[k] < b.hi[k]

\* Lattice points of the bounding box the candidates are drawn from
\* (box_min + rand * box_size); all coordinates even, all points distinct.
CubeDraw(k) == <<2 + 2 * (k % 7), 2 + 2 * ((k \div 7) % 7), 8>>

HammerDraw(k) ==
    LET h == PoolSize \div 2
        j == k - h
    IN  IF k < h THEN <<18 + 2 * k, 2, 8>>
        ELSE IF j % 2 = 0 THEN <<62 - j, 8, 8>>
        ELSE <<3 + j, 8, 8>>

TwoCubesDraw(k) ==
    LET h == PoolSize \div 2
        j == k - h
    IN  IF k < h THEN <<18 + 2 * (k % 7), 2 + 2 * ((k \div 7) % 7), 8>>
        ELSE <<2 + 2 * ((j \div 2) % 7) + (IF j % 2 = 1 THEN 32 ELSE 0),
               2 + 2 * ((j \div 14) % 7), 8>>

SheetDraw(k) == <<2 * (k % 8), 2 * ((k \div 8) % 8), 0>>

\* A watertight cube of side 16.
CubeMesh ==
    [name |-> "cube",
     bounds |-> <<<<0, 0, 0>>, <<16, 16, 16>>>>,
     centroid |-> <<8, 8, 8>>,
     is_watertight |-> TRUE,
     components |-> <<[is_watertight |-> TRUE,
                       solid |-> {Box(<<0, 0, 0>>, <<16, 16, 16>>)}]>>]

\* One watertight shell: a 16-cube head with a 4 x 4 handle of length 48.
\* Face areas 256 (x=0), 240 (x=16), 1024 (head sides, x=8), 768 (handle
\* sides, x=40), 16 (cap, x=64): area-weighted centroid x = 43776/2304 = 19.
\* The handle's box starts inside the head, so that the points of the joint
\* count as enclosed.
HammerMesh ==
    [name |-> "hammer",
     bounds |-> <<<<0, 0, 0>>, <<64, 16, 16>>>>,
     centroid |-> <<19, 8, 8>>,
     is_watertight |-> TRUE,
     components |-> <<[is_watertight |-> TRUE,
                       solid |-> {Box(<<0, 0, 0>>, <<16, 16, 16>>),
                                  Box(<<14, 6, 6>>, <<64, 10, 10>>)}]>>]

\* Two disjoint watertight cubes: two shells.
TwoCubesMesh ==
    [name |-> "two_cubes",
     bounds |-> <<<<0, 0, 0>>, <<48, 16, 16>>>>,
     centroid |-> <<24, 8, 8>>,
     is_watertight |-> TRUE,
     components |-> <<[is_watertight |-> TRUE,
                       solid |-> {Box(<<0, 0, 0>>, <<16, 16, 16>>)}],
                      [is_watertight |-> TRUE,
                       solid |-> {Box(<<32, 0, 0>>, <<48, 16, 16>>)}]>>]

\* An open flat square sheet: one shell, not watertight, no enclosed volume.
SheetMesh ==
    [name |-> "sheet",
     bounds |-> <<<<0, 0, 0>>, <<16, 16, 0>>>>,
     centroid |-> <<8, 8, 0>>,
     is_watertight |-> FALSE,
     components |-> <<[is_watertight |-> FALSE, solid |-> {}]>>]

Meshes == {CubeMesh, HammerMesh, TwoCubesMesh, SheetMesh}

\* The k-th point of the list the candidates of a mesh are drawn from.
Draw(mesh, k) ==
    CASE mesh.name = "cube" -> CubeDraw(k)
      [] mesh.name = "hammer" -> HammerDraw(k)
      [] mesh.name = "two_cubes" -> TwoCubesDraw(k)
      [] mesh.name = "sheet" -> SheetDraw(k)

\* aabb_scale as a fraction <<numerator, denominator>>: 0.5, 1.0, 1.25, 2.0
AabbScales == {<<1, 2>>, <<1, 1>>, <<5, 4>>, <<2, 1>>}

\* number_of_cells
CellCounts == 0..MaxCells

\* solid_mesh.split(only_watertight=False)
Split(mesh) == mesh.components

\* solid_mesh.contains(point)
Contains(mesh, p) ==
    \E k \in 1..Len(mesh.components) :
        /\ mesh.components[k].is_watertight
        /\ \E b \in mesh.components[k].solid : StrictlyIn(p, b)

(***************************************************************************)
(* Validation                                                              *)
(***************************************************************************)
\* number_of_cells < 1
CellsInvalid(n) == n < 1

\* Variant: the scale check written with < instead of <=.
ScaleInvalidStrict(s) == s[1] < s[2]

\* aabb_scale <= 1.0
ScaleInvalid(s) == s[1] <= s[2]

(***************************************************************************)
(* Rejection sampling                                                      *)
(***************************************************************************)
\* candidates = box_min + np.random.rand(number_of_cells * 5, 3) * box_size;
\* the draw is the window of the pool that starts at offset o.
Candidates(mesh, n, o) ==
    [t \in 1..(n * CandidatesPerCell) |-> Draw(mesh, (o + t - 1) % PoolSize)]

\* Offsets the window of a round starts at: windows with no, one, some and
\* only accepted candidates.
Offsets ==
    LET h == PoolSize \div 2
    IN  {0, 1, h - 1, h, h + 1, PoolSize - 1}

\* inside = solid_mesh.contains(candidates)
InsideMask(mesh, cands) == [t \in 1..Len(cands) |-> Contains(mesh, cands[t])]

\* Variant: the mask is dropped and every candidate is kept.
MaskedAll(cands, inside) == cands

\* candidates[inside]
Masked(cands, inside) ==
    LET F[k \in 0..Len(cands)] ==
            IF k = 0 THEN <<>>
            ELSE IF inside[k] THEN Append(F[k - 1], cands[k]) ELSE F[k - 1]
    IN  F[Len(cands)]

\* np.any(inside)
AnyInside(inside) == \E t \in 1..Len(inside) : inside[t]

\* seed_points[:number_of_cells]
Take(s, n) == IF Len(s) <= n THEN s ELSE SubSeq(s, 1, n)

(***************************************************************************)
(* Closure box and bisectors                                               *)
(***************************************************************************)
\* max_extent = float(np.max(bounds[1] - bounds[0]))
MaxExtent(mesh) == Max3(VSub(mesh.bounds[2], mesh.bounds[1]))

\* half = 0.5 * aabb_scale * max_extent (exact for the meshes above, whose
\* largest extent is a multiple of 8)
Half(mesh, s) == (s[1] * MaxExtent(mesh)) \div (2 * s[2])

AabbHalfspaces(mesh, s) ==
    LET center == mesh.centroid
        half == Half(mesh, s)
        xmin == center[1] - half
        ymin == center[2] - half
        zmin == center[3] - half
        xmax == center[1] + half
        ymax == center[2] + half
        zmax == center[3] + half
    IN  << <<1, 0, 0, Real(0 - xmax)>>,
           <<-1, 0, 0, Real(xmin)>>,
           <<0, 1, 0, Real(0 - ymax)>>,
           <<0, -1, 0, Real(ymin)>>,
           <<0, 0, 1, Real(0 - zmax)>>,
           <<0, 0, -1, Real(zmin)>> >>

\* d - eps with eps = 1e4 * mach * scale
ShiftedOffset(d, scale) == [r |-> d, e |-> 0 - scale]

\* The row cell i builds against seed j.
Bisector(pi, pj, max_extent) ==
    LET a == VScale(2, VSub(pj, pi))
        d == 0 - (Dot(pj, pj) - Dot(pi, pi))
        scale == Norm(a) * max_extent + Abs(d)
    IN  <<a[1], a[2], a[3], ShiftedOffset(d, scale)>>

\* hs after the loop over j (i and j count from 0 as in the code)
BisectorRows(seeds, i, max_extent) ==
    LET F[j \in 0..Len(seeds)] ==
            IF j = 0 THEN <<>>
            ELSE IF j - 1 = i THEN F[j - 1]
            ELSE Append(F[j - 1], Bisector(seeds[i + 1], seeds[j], max_extent))
    IN  F[Len(seeds)]

\* np.vstack([np.asarray(hs, dtype=float), aabb_halfspaces]) raises ValueError
\* when hs is empty: np.asarray([]) has shape (0,), atleast_2d makes it (1, 0),
\* and (1, 0) cannot be stacked on (6, 4).
VStackRaises(hs, aabb) == Len(hs) = 0

VStack(hs, aabb) == hs \o aabb

(***************************************************************************)
(* Clipping                                                                *)
(***************************************************************************)
\* What cell_poly.intersection(shell) gives for cell i and shell k:
\* an exception, None, an empty mesh, or a mesh with one component.
ClipOutcomes == {"raise", "none", "empty", "mesh"}

PartOf(outcome, i, k) ==
    [none |-> outcome = "none",
     comps |-> IF outcome = "mesh" THEN <<[cell |-> i, shell |-> k]>> ELSE <<>>]

\* Variant: the emptiness test is dropped.
KeepPartNotNone(part) == ~part.none

\* part is not None and not part.is_empty
KeepPart(part) == ~part.none /\ part.comps # <<>>

\* trimesh.util.concatenate(clipped_parts)
Concatenate(parts) ==
    LET F[k \in 0..Len(parts)] ==
            IF k = 0 THEN <<>> ELSE F[k - 1] \o parts[k].comps
    IN  [none |-> FALSE, comps |-> F[Len(parts)]]

\* clipped_parts[0] if len(clipped_parts) == 1 else concatenate(clipped_parts)
Clipped(parts) == IF Len(parts) = 1 THEN parts[1] ELSE Concatenate(parts)

\* Variant: the new cell is put in front of the list.
PrependCell(cells, clipped) == <<clipped>> \o cells

\* voronoi_cells.append(clipped)
AppendCell(cells, clipped) == Append(cells, clipped)

(***************************************************************************)
(* State                                                                   *)
(***************************************************************************)
VARIABLES
    pc,                 \* position in voronoi_tessellate_mesh
    solid_mesh,         \* argument
    number_of_cells,    \* argument
    aabb_scale,         \* argument
    shells,             \* solid_mesh.split(...); <<>> before the split
    seed_points,        \* list the sampler extends
    seed_points_array,  \* first number_of_cells seed points
    aabb_halfspaces,    \* the 6 closure rows; <<>> before they are built
    i,                  \* index of the per-seed loop, from 0
    halfspaces,         \* stacked system of the current seed
    cell_poly,          \* hull of the current cell (its seed index), or -1
    shell_pos,          \* shells already visited by the clip loop
    clipped_parts,      \* non-empty parts of the current cell
    part_results,       \* what each intersection call of this cell gave
    voronoi_cells,      \* accumulated output
    log,                \* printed lines that report a condition
    raised              \* exception that left the function, or "none"

vars == <<pc, solid_mesh, number_of_cells, aabb_scale, shells, seed_points,
          seed_points_array, aabb_halfspaces, i, halfspaces, cell_poly,
          shell_pos, clipped_parts, part_results, voronoi_cells, log, raised>>

inputs == <<solid_mesh, number_of_cells, aabb_scale>>

Init ==
    /\ pc = "validate"
    /\ solid_mesh \in Meshes
    /\ number_of_cells \in CellCounts
    /\ aabb_scale \in AabbScales
    /\ shells = <<>>
    /\ seed_points = <<>>
    /\ seed_points_array = <<>>
    /\ aabb_halfspaces = <<>>
    /\ i = 0
    /\ halfspaces = <<>>
    /\ cell_poly = -1
    /\ shell_pos = 0
    /\ clipped_parts = <<>>
    /\ part_results = <<>>
    /\ voronoi_cells = <<>>
    /\ log = <<>>
    /\ raised = "none"

Line(msg, cell) == [msg |-> msg, cell |-> cell]

\* Lines 93-99: the two argument checks, before anything else.
Validate ==
    /\ pc = "validate"
    /\ IF CellsInvalid(number_of_cells) \/ ScaleInvalid(aabb_scale)
       THEN /\ pc' = "config_error"
            /\ raised' = "ValueError"
       ELSE /\ pc' = "split"
            /\ raised' = raised
    /\ UNCHANGED <<inputs, shells, seed_points, seed_points_array,
                   aabb_halfspaces, i, halfspaces, cell_poly, shell_pos,
                   clipped_parts, part_results, voronoi_cells, log>>

\* Lines 104-119: split into shells, report several shells or an open mesh.
SplitShells ==
    /\ pc = "split"
    /\ shells' = Split(solid_mesh)
    /\ log' = IF Len(Split(solid_mesh)) > 1
              THEN Append(log, Line("several_shells", Len(Split(solid_mesh))))
              ELSE IF ~solid_mesh.is_watertight
                   THEN Append(log, Line("not_watertight", 0))
                   ELSE log
    /\ pc' = "sample"
    /\ UNCHANGED <<inputs, seed_points, seed_points_array, aabb_halfspaces, i,
                   halfspaces, cell_poly, shell_pos, clipped_parts,
                   part_results, voronoi_cells, raised>>

\* Lines 130-136: one iteration of the rejection-sampling loop.
SampleRound ==
    /\ pc = "sample"
    /\ Len(seed_points) < number_of_cells
    /\ \E o \in Offsets :
          LET candidates == Candidates(solid_mesh, number_of_cells, o)
              inside == InsideMask(solid_mesh, candidates)
          IN  seed_points' = IF AnyInside(inside)
                             THEN seed_points \o Masked(candidates, inside)
                             ELSE seed_points
    /\ UNCHANGED <<pc, inputs, shells, seed_points_array, aabb_halfspaces, i,
                   halfspaces, cell_poly, shell_pos, clipped_parts,
                   part_results, voronoi_cells, log, raised>>

\* Line 138: the loop has ended; keep the first number_of_cells points.
TakeSeeds ==
    /\ pc = "sample"
    /\ ~(Len(seed_points) < number_of_cells)
    /\ seed_points_array' = Take(seed_points, number_of_cells)
    /\ pc' = "aabb"
    /\ UNCHANGED <<inputs, shells, seed_points, aabb_halfspaces, i,
                   halfspaces, cell_poly, shell_pos, clipped_parts,
                   part_results, voronoi_cells, log, raised>>

\* Lines 144-173: the closure rows; the output list starts empty.
BuildAabb ==
    /\ pc = "aabb"
    /\ aabb_halfspaces' = AabbHalfspaces(solid_mesh, aabb_scale)
    /\ voronoi_cells' = <<>>
    /\ i' = 0
    /\ pc' = "loop"
    /\ UNCHANGED <<inputs, shells, seed_points, seed_points_array, halfspaces,
                   cell_poly, shell_pos, clipped_parts, part_results, log,
                   raised>>

\* Lines 175-203: next seed; its bisector rows, stacked on the closure rows.
\* The stacking is outside every try block: its ValueError leaves the function.
BuildHalfspaces ==
    /\ pc = "loop"
    /\ i < number_of_cells
    /\ LET hs == BisectorRows(seed_points_array, i, MaxExtent(solid_mesh))
       IN  IF VStackRaises(hs, aabb_halfspaces)
           THEN /\ pc' = "raised"
                /\ raised' = "ValueError"
                /\ halfspaces' = halfspaces
           ELSE /\ pc' = "solve"
                /\ raised' = raised
                /\ halfspaces' = VStack(hs, aabb_halfspaces)
    /\ cell_poly' = -1
    /\ shell_pos' = 0
    /\ clipped_parts' = <<>>
    /\ part_results' = <<>>
    /\ UNCHANGED <<inputs, shells, seed_points, seed_points_array,
                   aabb_halfspaces, i, voronoi_cells, log>>

\* The seed lies strictly inside every row of its system.
ClearlyInside(rows, p) == \A k \in 1..Len(rows) : LtZero(Lhs(rows[k], Point(p)))

\* What lines 208-223 can end in.  Qhull rejects an interior point that is
\* not clearly inside every half-space, so HalfspaceIntersection raises then.
SolveOutcomes(rows, p) ==
    IF ClearlyInside(rows, p)
    THEN {"hs_failed", "degenerate", "hull_failed", "ok"}
    ELSE {"hs_failed"}

\* Lines 206-223: half-space intersection, vertex count, convex hull.
SolveCell ==
    /\ pc = "solve"
    /\ \E outcome \in SolveOutcomes(halfspaces, seed_points_array[i + 1]) :
          IF outcome = "ok"
          THEN /\ cell_poly' = i
               /\ pc' = "clip"
               /\ UNCHANGED <<i, log>>
          ELSE /\ log' = Append(log, Line(outcome, i + 1))
               /\ i' = i + 1
               /\ pc' = "loop"
               /\ UNCHANGED cell_poly
    /\ UNCHANGED <<inputs, shells, seed_points, seed_points_array,
                   aabb_halfspaces, halfspaces, shell_pos, clipped_parts,
                   part_results, voronoi_cells, raised>>

\* Lines 229-236: one iteration of the loop over the shells.
ClipShell ==
    /\ pc = "clip"
    /\ shell_pos < Len(shells)
    /\ \E outcome \in ClipOutcomes :
          LET part == PartOf(outcome, cell_poly, shell_pos + 1)
          IN  /\ part_results' = Append(part_results, outcome)
              /\ clipped_parts' = IF outcome # "raise" /\ KeepPart(part)
                                  THEN Append(clipped_parts, part)
                                  ELSE clipped_parts
    /\ shell_pos' = shell_pos + 1
    /\ UNCHANGED <<pc, inputs, shells, seed_points, seed_points_array,
                   aabb_halfspaces, i, halfspaces, cell_poly, voronoi_cells,
                   log, raised>>

\* Lines 238-259: discard a cell with no part, else emit the merged parts;
\* a non-finite volume is reported and the cell is emitted all the same.
FinishCell ==
    /\ pc = "clip"
    /\ ~(shell_pos < Len(shells))
    /\ IF clipped_parts = <<>>
       THEN /\ log' = Append(log, Line("no_shell", i + 1))
            /\ UNCHANGED voronoi_cells
       ELSE \E finite \in BOOLEAN :
               /\ log' = IF finite THEN log
                         ELSE Append(log, Line("near_zero_volume", i + 1))
               /\ voronoi_cells' = AppendCell(voronoi_cells, Clipped(clipped_parts))
    /\ i' = i + 1
    /\ pc' = "loop"
    /\ UNCHANGED <<inputs, shells, seed_points, seed_points_array,
                   aabb_halfspaces, halfspaces, cell_poly, shell_pos,
                   clipped_parts, part_results, raised>>

\* Lines 261-266: the loop is over; report the count and return the list.
Return ==
    /\ pc = "loop"
    /\ ~(i < number_of_cells)
    /\ log' = Append(log, Line("completed", Len(voronoi_cells)))
    /\ pc' = "done"
    /\ UNCHANGED <<inputs, shells, seed_points, seed_points_array,
                   aabb_halfspaces, i, halfspaces, cell_poly, shell_pos,
                   clipped_parts, part_results, voronoi_cells, raised>>

Next ==
    \/ Validate
    \/ SplitShells
    \/ SampleRound
    \/ TakeSeeds
    \/ BuildAabb
    \/ BuildHalfspaces
    \/ SolveCell
    \/ ClipShell
    \/ FinishCell
    \/ Return

Spec == Init /\ [][Next]_vars

\* The interpreter keeps running the function: a step that changes the state
\* is taken whenever one is possible.  A sampling round in which no candidate
\* is accepted changes nothing.
FairSpec == Spec /\ WF_vars(Next)

(***************************************************************************)
(* Properties                                                              *)
(***************************************************************************)
DiscardMsgs == {"hs_failed", "degenerate", "hull_failed", "no_shell"}

\* Number of discard lines the log holds for the seed with index s.
DiscardLines(s) ==
    Cardinality({k \in 1..Len(log) :
                    log[k].msg \in DiscardMsgs /\ log[k].cell = s + 1})

\* Seed indices of the cells in the output list.
EmittedSeeds ==
    {voronoi_cells[k].comps[1].cell :
        k \in {n \in 1..Len(voronoi_cells) : voronoi_cells[n].comps # <<>>}}

InSeedLoop == pc \in {"loop", "solve", "clip", "done", "raised"}

\* C1: for number_of_cells >= 1 and aabb_scale > 1.0, on any mesh, the run
\* eventually reaches the return statement and returns a list of between 0
\* and number_of_cells cells.
C1_Terminates ==
    (number_of_cells >= 1 /\ aabb_scale[1] > aabb_scale[2])
        => <>(pc = "done" /\ Len(voronoi_cells) \in 0..number_of_cells)

\* C2: with number_of_cells < 1 or aabb_scale <= 1.0 the call can only end
\* in the configuration error, and nothing has been done by then: no shell
\* split, no seed sampled, no closure row or cell built, nothing reported,
\* no cell list returned.
C2_ConfigErrorBeforeWork ==
    (number_of_cells < 1 \/ aabb_scale[1] <= aabb_scale[2])
        => /\ pc \in {"validate", "config_error"}
           /\ pc = "config_error" => raised = "ValueError"
           /\ shells = <<>>
           /\ seed_points = <<>>
           /\ seed_points_array = <<>>
           /\ aabb_halfspaces = <<>>
           /\ halfspaces = <<>>
           /\ cell_poly = -1
           /\ voronoi_cells = <<>>
           /\ log = <<>>

\* C2 case: the error raised for aabb_scale = 1.0 with a valid cell count.
C2_Witness ==
    /\ pc = "config_error"
    /\ number_of_cells >= 1
    /\ aabb_scale = <<1, 1>>

\* C3: the output list is in seed order with at most one cell per seed, and
\* at every point of the loop it holds exactly the cells of the seeds
\* processed so far that were not discarded; a skipped seed has no entry.
C3_SeedOrder ==
    /\ \A k \in 1..Len(voronoi_cells) :
          /\ voronoi_cells[k].comps # <<>>
          /\ ~voronoi_cells[k].none
          /\ \A c \in 1..Len(voronoi_cells[k].comps) :
                voronoi_cells[k].comps[c].cell = voronoi_cells[k].comps[1].cell
    /\ \A k \in 1..(Len(voronoi_cells) - 1) :
          voronoi_cells[k].comps[1].cell < voronoi_cells[k + 1].comps[1].cell
    /\ InSeedLoop =>
          EmittedSeeds = {s \in 0..(i - 1) : DiscardLines(s) = 0}
    /\ ~InSeedLoop => voronoi_cells = <<>>

\* C3 case: the run returned the cells of seeds 0 and 2; seed 1 was skipped.
C3_Witness ==
    /\ pc = "done"
    /\ number_of_cells = 3
    /\ Len(voronoi_cells) = 2
    /\ voronoi_cells[1].comps[1].cell = 0
    /\ voronoi_cells[2].comps[1].cell = 2
    /\ DiscardLines(1) = 1

\* C4: with number_of_cells = 1 on a single watertight shell the seed has no
\* bisector rows, its system is the 6 closure rows, and the run returns
\* exactly 1 cell: it is neither discarded nor does the run abort.
C4_SingleCell ==
    (/\ number_of_cells = 1
     /\ aabb_scale[1] > aabb_scale[2]
     /\ Len(solid_mesh.components) = 1
     /\ solid_mesh.is_watertight)
        => /\ pc # "raised"
           /\ pc \in {"solve", "clip"} => halfspaces = aabb_halfspaces
           /\ pc = "done" => Len(voronoi_cells) = 1

\* C5: when the sampler has finished, the seed array holds exactly
\* number_of_cells points, the first ones of the seed list, and no point
\* the containment test rejected is in the seed list while it is filled or
\* in the seed array at any time.
C5_SeedsExact ==
    /\ pc \in {"sample", "aabb"} =>
          \A k \in 1..Len(seed_points) : Contains(solid_mesh, seed_points[k])
    /\ \A k \in 1..Len(seed_points_array) :
          Contains(solid_mesh, seed_points_array[k])
    /\ pc \notin {"validate", "config_error", "split", "sample"}
          => /\ Len(seed_points_array) = number_of_cells
             /\ seed_points_array = SubSeq(seed_points, 1, number_of_cells)

\* C5 case: the sampler finished after a round that accepted more
\* candidates than were missing.
C5_Witness ==
    /\ pc = "aabb"
    /\ Len(seed_points) > number_of_cells
    /\ Len(seed_points_array) = number_of_cells

\* C6: the seed handed to the half-space solver satisfies every inequality
\* of its system: the number_of_cells - 1 shifted bisector rows and the 6
\* closure rows.
C6_SeedFeasible ==
    pc = "solve"
        => /\ Len(halfspaces) = (number_of_cells - 1) + 6
           /\ \A k \in 1..Len(halfspaces) :
                 Satisfies(halfspaces[k], Point(seed_points_array[i + 1]))

\* The bisector row without the shift: a.x + d <= 0.
ExactRow(row) == <<row[1], row[2], row[3], Real(row[4].r)>>

\* Points probed between two seeds p and q: the midpoint, and the midpoint
\* moved by (q - p) * 1e4 * mach towards either seed.
Probes(p, q) ==
    LET m == <<(p[1] + q[1]) \div 2, (p[2] + q[2]) \div 2, (p[3] + q[3]) \div 2>>
    IN  {[r |-> m, e |-> VScale(t, VSub(q, p))] : t \in {-1, 0, 1}}

\* C7: for seeds at distinct positions, every point that satisfies the
\* shifted inequality of cell i against j satisfies the exact one, and no
\* point satisfies both the shifted row of i against j and of j against i.
C7_ShiftSeparates ==
    \A m \in 1..Len(seed_points_array), n \in 1..Len(seed_points_array) :
        LET p == seed_points_array[m]
            q == seed_points_array[n]
            me == MaxExtent(solid_mesh)
        IN  (m # n /\ p # q) =>
                \A x \in Probes(p, q) :
                    /\ Satisfies(Bisector(p, q, me), x)
                          => Satisfies(ExactRow(Bisector(p, q, me)), x)
                    /\ ~(/\ Satisfies(Bisector(p, q, me), x)
                         /\ Satisfies(Bisector(q, p, me), x))

\* C8: the closure box strictly contains the bounding box of the mesh on
\* all three axes, and so every sampled seed.
C8_ClosureContains ==
    aabb_halfspaces # <<>>
        => \A k \in 1..3 :
              LET kmax == 0 - aabb_halfspaces[2 * k - 1][4].r
                  kmin == aabb_halfspaces[2 * k][4].r
              IN  /\ kmin < solid_mesh.bounds[1][k]
                  /\ solid_mesh.bounds[2][k] < kmax
                  /\ \A n \in 1..Len(seed_points_array) :
                        /\ kmin < seed_points_array[n][k]
                        /\ seed_points_array[n][k] < kmax

\* C9: once validation has passed no per-cell or per-shell step aborts the
\* run: every seed processed so far was either emitted, with no discard
\* line, or discarded with exactly one logged cause.
C9_FailuresContained ==
    /\ pc # "raised"
    /\ InSeedLoop =>
          \A s \in 0..(i - 1) :
              DiscardLines(s) = IF s \in EmittedSeeds THEN 0 ELSE 1

\* Shells whose intersection with the current cell gave a non-empty mesh,
\* in list order.
NonEmptyShells ==
    LET F[k \in 0..Len(part_results)] ==
            IF k = 0 THEN <<>>
            ELSE IF part_results[k] = "mesh" THEN Append(F[k - 1], k)
            ELSE F[k - 1]
    IN  F[Len(part_results)]

\* The parts of cell s for the shells ks.
PartsOf(s, ks) == [n \in 1..Len(ks) |-> [cell |-> s, shell |-> ks[n]]]

\* C10: the clip loop visits every shell in list order, whatever the
\* earlier shells gave; a cell whose hull was built is discarded with the
\* no-shell warning iff no shell gave a non-empty result, and otherwise the
\* emitted cell is exactly the non-empty per-shell results in shell order.
C10_ShellClipper ==
    /\ pc = "clip" =>
          /\ Len(part_results) = shell_pos
          /\ shell_pos <= Len(shells)
          /\ Len(clipped_parts) = Len(NonEmptyShells)
          /\ \A n \in 1..Len(clipped_parts) :
                clipped_parts[n].comps = PartsOf(cell_poly, <<NonEmptyShells[n]>>)
    /\ (pc \in {"loop", "done"} /\ cell_poly >= 0 /\ cell_poly = i - 1) =>
          /\ Len(part_results) = Len(shells)
          /\ (NonEmptyShells = <<>>) <=>
                (\E k \in 1..Len(log) : log[k] = Line("no_shell", i))
          /\ NonEmptyShells = <<>> =>
                \A k \in 1..Len(voronoi_cells) :
                    \A c \in 1..Len(voronoi_cells[k].comps) :
                        voronoi_cells[k].comps[c].cell # cell_poly
          /\ NonEmptyShells # <<>> =>
                /\ voronoi_cells # <<>>
                /\ voronoi_cells[Len(voronoi_cells)].comps
                      = PartsOf(cell_poly, NonEmptyShells)

\* C10 case: the first shell's intersection raised, the second shell gave a
\* part, and the cell was emitted with that part alone.
C10_Witness ==
    /\ pc = "loop"
    /\ cell_poly = i - 1
    /\ part_results = <<"raise", "mesh">>
    /\ voronoi_cells # <<>>
    /\ voronoi_cells[Len(voronoi_cells)].comps
          = <<[cell |-> cell_poly, shell |-> 2]>>

====
